---------------------------- MODULE Spec2Model ----------------------------
(***************************************************************************)
(* Model of ampligraph/latent_features/loss_functions.py: the loss         *)
(* registry filled by the register_loss decorator, and one Loss instance   *)
(* with its hyperparameters (_loss_parameters) and its pending assertions  *)
(* (_dependencies).                                                        *)
(*                                                                         *)
(* Conventions.                                                            *)
(*  - A score tensor is a one-dimensional sequence of integers.            *)
(*  - The library runs TensorFlow in graph mode with batch sizes known     *)
(*    only at run time: an exception raised by Python code inside apply()  *)
(*    comes first; then the tf.Assert ops of _dependencies run, as control *)
(*    dependencies, before the ops built by _apply.  One Apply step is     *)
(*    the call of apply() together with the evaluation of the loss.        *)
(*  - Python's None is the string "None" where it is a stored value, and   *)
(*    an empty sequence <<>> where it is an optional argument (<<v>> is    *)
(*    the argument v).                                                     *)
(*  - Floats that are only stored are strings ("0.5"); margins and scores  *)
(*    are integers, so the two margin losses are computed exactly.  A loss *)
(*    built from log / exp / sigmoid is the outcome "real": a scalar whose *)
(*    value integers cannot express.                                       *)
(***************************************************************************)
EXTENDS Integers, Sequences, FiniteSets, TLC

VARIABLES
    LOSS_REGISTRY,      \* loss name -> registered class handle
    name,               \* class handle -> its class attribute `name`
    external_params,    \* class handle -> its class attribute `external_params`
    class_params,       \* class handle -> its class attribute `class_params`
    self_class,         \* the class of the Loss instance (NoInstance before construction)
    _loss_parameters,   \* the instance's hyperparameter dict
    _dependencies,      \* the instance's list of pending assertions
    last_op,            \* the operation of the last step
    last_args,          \* its arguments
    ret,                \* its outcome: a value returned or an exception raised
    memo,               \* history: <<>>, or <<an apply call, its outcome, and the kind of
                        \* outcome of the latest apply call on other inputs since>>
    caller_tensors,     \* the two tensors passed to the apply call of the last step, as
                        \* the caller holds them after the call (<<>> after other steps)
    calls               \* thread -> its apply call, when two threads share the instance

vars == <<LOSS_REGISTRY, name, external_params, class_params, self_class,
          _loss_parameters, _dependencies, last_op, last_args, ret, memo,
          caller_tensors, calls>>

registry_vars == <<LOSS_REGISTRY, name, external_params, class_params>>

instance_vars == <<self_class, _loss_parameters, _dependencies, memo>>

-----------------------------------------------------------------------------
(* Bounds of the model. *)

\* Longest score tensor passed to apply.
MaxLen == 2

\* Largest number of negatives (eta) an instance is constructed with.
MaxEta == 2

-----------------------------------------------------------------------------
(* Module constants. *)

DEFAULT_MARGIN == 1

DEFAULT_ALPHA_ADVERSARIAL == "0.5"

DEFAULT_MARGIN_ADVERSARIAL == 3

DEFAULT_LABEL_SMOOTHING == "None"

DEFAULT_LABEL_WEIGHTING == FALSE

-----------------------------------------------------------------------------
(* The classes of the module. *)

PairwiseLoss == "PairwiseLoss"

NLLLoss == "NLLLoss"

AbsoluteMarginLoss == "AbsoluteMarginLoss"

SelfAdversarialLoss == "SelfAdversarialLoss"

NLLMulticlass == "NLLMulticlass"

BCELoss == "BCELoss"

Classes ==
    {PairwiseLoss, NLLLoss, AbsoluteMarginLoss, SelfAdversarialLoss, NLLMulticlass, BCELoss}

NoInstance == "NoInstance"

REQ == "require_same_size_pos_neg"

\* The elements of a sequence.
Range(s) == {s[i] : i \in 1..Len(s)}

\* Faulty variant: the default is taken even when the key is present.
DictGetMutant(d, key, default) == default

\* dict.get(key, default)
DictGet(d, key, default) == IF key \in DOMAIN d THEN d[key] ELSE default

-----------------------------------------------------------------------------
(* register_loss(name, external_params, class_params)(class_handle), on a  *)
(* registry state R = [reg, name, external_params, class_params].  The     *)
(* descriptor fields are attributes of the class handle itself.            *)

\* Class attributes inherited from Loss before any registration.
UnregisteredClasses ==
    [reg             |-> <<>>,
     name            |-> [c \in Classes |-> ""],
     external_params |-> [c \in Classes |-> <<>>],
     class_params    |-> [c \in Classes |-> <<>>]]

\* default_class_params
default_class_params == [require_same_size_pos_neg |-> TRUE]

\* populate_class_params: the dict stored on LOSS_REGISTRY[name].
populate_class_params(cp_arg) ==
    LET given == IF Len(cp_arg) = 0 THEN default_class_params ELSE cp_arg[1]
    IN  [require_same_size_pos_neg |-> DictGet(given, REQ, default_class_params[REQ])]

\* insert_in_registry
insert_in_registry(R, n, class_handle, ext_arg, cp_arg) ==
    LET ext == IF Len(ext_arg) = 0 THEN <<>> ELSE ext_arg[1]
        reg1 == [k \in DOMAIN R.reg \cup {n} |-> IF k = n THEN class_handle ELSE R.reg[k]]
        name1 == [R.name EXCEPT ![class_handle] = n]
        ext1 == [R.external_params EXCEPT ![reg1[n]] = ext]
        cp1 == [R.class_params EXCEPT ![reg1[n]] = populate_class_params(cp_arg)]
    IN  [reg |-> reg1, name |-> name1, external_params |-> ext1, class_params |-> cp1]

\* Faulty variant: no decorator passes class_params.
ModuleClassParamsMutant(c) == <<>>

\* The class_params argument each decorator of the module passes.
ModuleClassParams(c) ==
    IF c \in {SelfAdversarialLoss, NLLMulticlass, BCELoss}
        THEN <<[require_same_size_pos_neg |-> FALSE]>>
        ELSE <<>>

\* The six @register_loss decorators, in module order.
ModuleRegistrations ==
    << [n |-> "pairwise", c |-> PairwiseLoss, ext |-> << <<"margin">> >>],
       [n |-> "nll", c |-> NLLLoss, ext |-> <<>>],
       [n |-> "absolute_margin", c |-> AbsoluteMarginLoss, ext |-> << <<"margin">> >>],
       [n |-> "self_adversarial", c |-> SelfAdversarialLoss, ext |-> << <<"margin", "alpha">> >>],
       [n |-> "multiclass_nll", c |-> NLLMulticlass, ext |-> << <<>> >>],
       [n |-> "bce", c |-> BCELoss, ext |-> << <<"label_smoothing", "label_weighting">> >>] >>

RECURSIVE RegisterFirst(_)
\* The registry after the first k decorators have run.
RegisterFirst(k) ==
    IF k = 0 THEN UnregisteredClasses
    ELSE LET r == ModuleRegistrations[k]
         IN  insert_in_registry(RegisterFirst(k - 1), r.n, r.c, r.ext, ModuleClassParams(r.c))

\* The registry once the module is imported.
ModuleLoaded == RegisterFirst(Len(ModuleRegistrations))

-----------------------------------------------------------------------------
(* Inputs. *)

\* Values a score takes.
Scores == {0, 1}

\* The score tensors passed to apply.
Tensors == UNION {[1..n -> Scores] : n \in 0..MaxLen}

\* One tensor of each length.
ShapeTensors == {[i \in 1..n |-> i % 2] : n \in 0..MaxLen}

\* The values of eta.
EtaValues == 1..MaxEta

\* The hyperparameter dicts passed to the constructors; "foo" is a key no
\* loss declares.
HyperparamDicts ==
    << <<>>,
       [margin |-> 2],
       [margin |-> 0, foo |-> 7],
       [alpha |-> "1.0"],
       [label_smoothing |-> "0.1"],
       [label_smoothing |-> "0.1", label_weighting |-> TRUE, foo |-> 7] >>

\* The loss_params argument: omitted (<<>>, for i = 0) or the i-th dict.
LossParamsArg(i) == IF i = 0 THEN <<>> ELSE <<HyperparamDicts[i]>>

\* Keys and values passed to _set_hyperparams.
SettableKeys == {"num_entities"}

SettableValues(key) == {0, 2}

\* Names passed to get_state.
StateNames == {REQ, "foo"}

-----------------------------------------------------------------------------
(* Construction. *)

\* The default of the loss_params argument in each subclass __init__.
DefaultLossParams(c) ==
    CASE c \in {PairwiseLoss, AbsoluteMarginLoss} -> [margin |-> DEFAULT_MARGIN]
      [] c = SelfAdversarialLoss ->
            [margin |-> DEFAULT_MARGIN_ADVERSARIAL, alpha |-> DEFAULT_ALPHA_ADVERSARIAL]
      [] OTHER -> <<>>

\* _init_hyperparams of each class: the entries it adds to _loss_parameters.
_init_hyperparams(c, hyperparam_dict) ==
    CASE c \in {PairwiseLoss, AbsoluteMarginLoss} ->
            [margin |-> DictGet(hyperparam_dict, "margin", DEFAULT_MARGIN)]
      [] c = SelfAdversarialLoss ->
            [margin |-> DictGet(hyperparam_dict, "margin", DEFAULT_MARGIN_ADVERSARIAL),
             alpha  |-> DictGet(hyperparam_dict, "alpha", DEFAULT_ALPHA_ADVERSARIAL)]
      [] c = BCELoss ->
            [label_smoothing |-> DictGet(hyperparam_dict, "label_smoothing", DEFAULT_LABEL_SMOOTHING),
             label_weighting |-> DictGet(hyperparam_dict, "label_weighting", DEFAULT_LABEL_WEIGHTING)]
      [] OTHER -> <<>>

\* d[key] = value
DictSet(d, key, value) ==
    [k \in DOMAIN d \cup {key} |-> IF k = key THEN value ELSE d[k]]

\* d.update(e)
DictUpdate(d, e) ==
    [k \in DOMAIN d \cup DOMAIN e |-> IF k \in DOMAIN e THEN e[k] ELSE d[k]]

\* Loss.__init__ through the subclass __init__: never raises, since every
\* _init_hyperparams reads the dict with .get.
Construct(c, eta, loss_params) ==
    LET hyperparam_dict == IF Len(loss_params) = 0 THEN DefaultLossParams(c) ELSE loss_params[1]
    IN  /\ self_class = NoInstance
        /\ self_class' = c
        /\ _loss_parameters' = DictUpdate([eta |-> eta], _init_hyperparams(c, hyperparam_dict))
        /\ _dependencies' = <<>>
        /\ last_op' = "construct"
        /\ last_args' = <<c, eta, loss_params>>
        /\ ret' = [kind |-> "instance", val |-> 0]
        /\ memo' = <<>>
        /\ caller_tensors' = <<>>
        /\ UNCHANGED <<registry_vars, calls>>

-----------------------------------------------------------------------------
(* Tensor arithmetic. *)

Maximum(a, b) == IF a >= b THEN a ELSE b

\* Whether two one-dimensional shapes broadcast against each other.
Broadcastable(a, b) == Len(a) = Len(b) \/ Len(a) = 1 \/ Len(b) = 1

\* The length of the broadcast of a and b.
BroadcastLen(a, b) == IF Len(a) = 1 THEN Len(b) ELSE Len(a)

\* Element i of a, broadcast to a longer shape.
At(a, i) == IF Len(a) = 1 THEN a[1] ELSE a[i]

RECURSIVE reduce_sum(_)
\* tf.reduce_sum of a one-dimensional tensor.
reduce_sum(t) == IF Len(t) = 0 THEN 0 ELSE t[1] + reduce_sum(Tail(t))

\* An outcome: a value returned or an exception raised.
Outcome(kind, val) == [kind |-> kind, val |-> val]

IncompatibleShapes == Outcome("IncompatibleShapesError", 0)

\* Faulty variant: the hinge is left out.
PairwiseTermMutant(margin, p, n) == margin - p + n

\* One element of tf.maximum(margin - scores_pos + scores_neg, 0).
PairwiseTerm(margin, p, n) == Maximum(margin - p + n, 0)

\* PairwiseLoss._apply
PairwiseApply(params, scores_pos, scores_neg) ==
    IF ~Broadcastable(scores_pos, scores_neg) THEN IncompatibleShapes
    ELSE Outcome("loss",
            reduce_sum([i \in 1..BroadcastLen(scores_pos, scores_neg) |->
                PairwiseTerm(params["margin"], At(scores_pos, i), At(scores_neg, i))]))

\* AbsoluteMarginLoss._apply
AbsoluteMarginApply(params, scores_pos, scores_neg) ==
    IF ~Broadcastable(scores_pos, scores_neg) THEN IncompatibleShapes
    ELSE Outcome("loss",
            reduce_sum([i \in 1..BroadcastLen(scores_pos, scores_neg) |->
                Maximum(params["margin"] + At(scores_neg, i), 0) - At(scores_pos, i)]))

\* NLLLoss._apply: tf.concat takes any two lengths.
NLLApply(params, scores_pos, scores_neg) == Outcome("real", 0)

\* The reshape, had it kept the shape of scores_pos.
ReshapableMutant(params, scores_pos, scores_neg) ==
    Len(scores_neg) = Len(scores_pos)

\* tf.reshape(scores_neg, [eta, tf.shape(scores_pos)[0]]) needs eta * n elements.
Reshapable(params, scores_pos, scores_neg) ==
    Len(scores_neg) = params["eta"] * Len(scores_pos)

\* SelfAdversarialLoss._apply
SelfAdversarialApply(params, scores_pos, scores_neg) ==
    IF ~Reshapable(params, scores_pos, scores_neg) THEN IncompatibleShapes
    ELSE Outcome("real", 0)

\* NLLMulticlass._apply
NLLMulticlassApply(params, scores_pos, scores_neg) ==
    IF ~Reshapable(params, scores_pos, scores_neg) THEN IncompatibleShapes
    ELSE Outcome("real", 0)

\* BCELoss._apply: the label smoothing reads num_entities and divides two
\* Python numbers while the graph is built; the element-wise ops need equal
\* shapes.
BCEApply(params, y_true, y_pred) ==
    IF params["label_smoothing"] # "None" /\ "num_entities" \notin DOMAIN params
        THEN Outcome("KeyError", 0)
    ELSE IF params["label_smoothing"] # "None" /\ params["num_entities"] = 0
        THEN Outcome("ZeroDivisionError", 0)
    ELSE IF Len(y_true) # Len(y_pred) THEN IncompatibleShapes
    ELSE Outcome("real", 0)

\* The _apply of class c.
_apply(c, params, scores_pos, scores_neg) ==
    CASE c = PairwiseLoss -> PairwiseApply(params, scores_pos, scores_neg)
      [] c = NLLLoss -> NLLApply(params, scores_pos, scores_neg)
      [] c = AbsoluteMarginLoss -> AbsoluteMarginApply(params, scores_pos, scores_neg)
      [] c = SelfAdversarialLoss -> SelfAdversarialApply(params, scores_pos, scores_neg)
      [] c = NLLMulticlass -> NLLMulticlassApply(params, scores_pos, scores_neg)
      [] c = BCELoss -> BCEApply(params, scores_pos, scores_neg)

-----------------------------------------------------------------------------
(* Input checks and apply. *)

\* tf.Assert(tf.equal(tf.shape(x)[0], tf.shape(y)[0]), ...): the assertion
\* holds the two tensors it was built on.
SameLengthAssert(x, y) == [x |-> x, y |-> y]

\* Whether a pending assertion holds when it runs.
Holds(a) == Len(a.x) = Len(a.y)

\* Faulty variant: the list is not emptied before it is filled.
FreshDependenciesMutant(old) == old

\* self._dependencies = []
FreshDependencies(old) == <<>>

\* Faulty variant: the assertion is built whatever eta is.
NeedsSameSizeMutant(c, params) ==
    class_params[LOSS_REGISTRY[name[c]]][REQ]

\* The condition of Loss._inputs_check.
NeedsSameSize(c, params) ==
    class_params[LOSS_REGISTRY[name[c]]][REQ] /\ params["eta"] # 1

\* Loss._inputs_check: the new _dependencies.
Loss_inputs_check(c, params, old, scores_pos, scores_neg) ==
    IF NeedsSameSize(c, params)
        THEN Append(FreshDependencies(old), SameLengthAssert(scores_pos, scores_neg))
        ELSE FreshDependencies(old)

\* BCELoss._inputs_check: the new _dependencies.
BCE_inputs_check(c, params, old, y_true, y_pred) ==
    Append(FreshDependencies(old), SameLengthAssert(y_pred, y_true))

\* Faulty variant: label smoothing is never checked against num_entities.
BCEMissingNumEntitiesMutant(params) == FALSE

\* BCELoss._inputs_check: whether it raises for a missing num_entities.
BCEMissingNumEntities(params) ==
    params["label_smoothing"] # "None" /\ "num_entities" \notin DOMAIN params

\* _inputs_check of class c: the new _dependencies.
_inputs_check(c, params, old, a, b) ==
    IF c = BCELoss THEN BCE_inputs_check(c, params, old, a, b)
    ELSE Loss_inputs_check(c, params, old, a, b)

\* Exceptions Python raises while _apply builds the graph.
RaisedWhileBuilding == {"KeyError", "ZeroDivisionError"}

\* The outcome of apply (both Loss.apply and BCELoss.apply), given the
\* _dependencies its _inputs_check left.
apply_outcome(c, params, deps, a, b) ==
    LET loss == _apply(c, params, a, b)
    IN  IF c = BCELoss /\ BCEMissingNumEntities(params)
            THEN Outcome("ConfigurationError", 0)
        ELSE IF loss.kind \in RaisedWhileBuilding THEN loss
        ELSE IF \E i \in 1..Len(deps) : ~Holds(deps[i])
            THEN Outcome("ShapeMismatchError", 0)
        ELSE loss

\* The caller's two tensors once _apply has run, had it written into its
\* arguments where it negates scores_pos.
ArgumentsAfterMutant(c, params, scores_pos, scores_neg) ==
    IF c = NLLLoss
        THEN <<[i \in 1..Len(scores_pos) |-> 0 - scores_pos[i]], scores_neg>>
        ELSE <<scores_pos, scores_neg>>

\* The caller's two tensors once _apply has run: clip_before_exp, the
\* negation and the label smoothing each build a new tensor, and
\* `scores_neg = ...` / `y_true = ...` bind it to the local name only.
ArgumentsAfter(c, params, scores_pos, scores_neg) == <<scores_pos, scores_neg>>

\* The history after an apply call: it keeps the call when told to, and
\* otherwise notes a call whose inputs differ from the one it keeps.
Remember(a, b, out, remember) ==
    IF remember THEN <<[a |-> a, b |-> b, ret |-> out, between |-> ""]>>
    ELSE IF Len(memo) = 1 /\ (memo[1].a # a \/ memo[1].b # b)
        THEN <<[memo[1] EXCEPT !.between = out.kind]>>
    ELSE memo

\* apply(a, b) on the instance.  remember: the history keeps this call.
Apply(a, b, remember) ==
    /\ self_class # NoInstance
    /\ LET deps == _inputs_check(self_class, _loss_parameters, _dependencies, a, b)
           out == apply_outcome(self_class, _loss_parameters, deps, a, b)
       IN  /\ _dependencies' = deps
           /\ ret' = out
           /\ memo' = Remember(a, b, out, remember)
    /\ last_op' = "apply"
    /\ last_args' = <<a, b>>
    /\ caller_tensors' = ArgumentsAfter(self_class, _loss_parameters, a, b)
    /\ UNCHANGED <<registry_vars, self_class, _loss_parameters, calls>>

\* BCELoss._set_hyperparams(key, value)
SetHyperparams(key, value) ==
    /\ self_class = BCELoss
    /\ _loss_parameters' = DictSet(_loss_parameters, key, value)
    /\ last_op' = "set_hyperparams"
    /\ last_args' = <<key, value>>
    /\ ret' = Outcome("None", 0)
    /\ memo' = <<>>
    /\ caller_tensors' = <<>>
    /\ UNCHANGED <<registry_vars, self_class, _dependencies, calls>>

\* Python's repr of a bool.
PyBool(b) == IF b THEN "True" ELSE "False"

\* Loss.get_state(param_name)
GetState(param_name) ==
    /\ self_class # NoInstance
    /\ ret' = IF name[self_class] \notin DOMAIN LOSS_REGISTRY
                THEN Outcome("Exception", "Invalid Keu")
              ELSE LET cp == class_params[LOSS_REGISTRY[name[self_class]]]
                   IN  Outcome("value",
                           IF param_name \in DOMAIN cp THEN PyBool(cp[param_name]) ELSE "None")
    /\ last_op' = "get_state"
    /\ last_args' = <<param_name>>
    /\ caller_tensors' = <<>>
    /\ UNCHANGED <<registry_vars, instance_vars, calls>>

-----------------------------------------------------------------------------
(* Two threads sharing the instance. *)

Threads == {1, 2}

\* A thread that has not called apply yet.
NoCall == [pc |-> "ready", a |-> <<>>, b |-> <<>>, guard |-> <<>>,
           ret |-> Outcome("None", 0), overtaken |-> FALSE]

-----------------------------------------------------------------------------
(* The instance's life, with the registry as the module left it. *)

Init ==
    /\ LOSS_REGISTRY = ModuleLoaded.reg
    /\ name = ModuleLoaded.name
    /\ external_params = ModuleLoaded.external_params
    /\ class_params = ModuleLoaded.class_params
    /\ self_class = NoInstance
    /\ _loss_parameters = <<>>
    /\ _dependencies = <<>>
    /\ last_op = "none"
    /\ last_args = <<>>
    /\ ret = Outcome("None", 0)
    /\ memo = <<>>
    /\ caller_tensors = <<>>
    /\ calls = [t \in Threads |-> NoCall]

Next ==
    \/ \E c \in Classes, eta \in EtaValues, i \in 0..Len(HyperparamDicts) :
            Construct(c, eta, LossParamsArg(i))
    \/ \E a \in Tensors, b \in Tensors : Apply(a, b, FALSE)
    \/ \E key \in SettableKeys : \E value \in SettableValues(key) : SetHyperparams(key, value)

Spec == Init /\ [][Next]_vars

\* The same life, observed: apply is called on one batch of each length and
\* the history may keep any one call.
NextIdem ==
    \/ \E c \in Classes, eta \in EtaValues, i \in 0..Len(HyperparamDicts) :
            Construct(c, eta, LossParamsArg(i))
    \/ \E a \in ShapeTensors, b \in ShapeTensors, remember \in BOOLEAN : Apply(a, b, remember)
    \/ \E key \in SettableKeys : \E value \in SettableValues(key) : SetHyperparams(key, value)

SpecIdem == Init /\ [][NextIdem]_vars

-----------------------------------------------------------------------------
(* The registry under further register_loss calls. *)

\* Names and classes passed to register_loss after the module is loaded.
RegisterNames == {"pairwise", "nll", "custom"}

RegisterClasses == {PairwiseLoss, NLLLoss}

\* The external_params argument: omitted, or a list.
ExternalParamsArg(i) == IF i = 0 THEN <<>> ELSE << <<"margin">> >>

\* The class_params argument: omitted, an empty dict, or a dict with the flag.
ClassParamsArg(i) ==
    CASE i = 0 -> <<>>
      [] i = 1 -> << <<>> >>
      [] OTHER -> <<[require_same_size_pos_neg |-> FALSE]>>

\* register_loss(n, external_params, class_params)(class_handle)
Register(n, class_handle, ext_arg, cp_arg) ==
    LET R == [reg |-> LOSS_REGISTRY, name |-> name,
              external_params |-> external_params, class_params |-> class_params]
        R1 == insert_in_registry(R, n, class_handle, ext_arg, cp_arg)
    IN  /\ LOSS_REGISTRY' = R1.reg
        /\ name' = R1.name
        /\ external_params' = R1.external_params
        /\ class_params' = R1.class_params
        /\ last_op' = "register"
        /\ last_args' = <<n>>
        /\ ret' = Outcome("class", class_handle)
        /\ caller_tensors' = <<>>
        /\ UNCHANGED <<instance_vars, calls>>

NextRegistry ==
    \/ \E n \in RegisterNames, c \in RegisterClasses, i \in 0..1, j \in 0..2 :
            Register(n, c, ExternalParamsArg(i), ClassParamsArg(j))
    \/ \E c \in RegisterClasses, eta \in EtaValues : Construct(c, eta, <<>>)
    \/ \E param_name \in StateNames : GetState(param_name)

SpecRegistry == Init /\ [][NextRegistry]_vars

-----------------------------------------------------------------------------
(* Two apply calls on the instance, one per thread, without a lock.  A call *)
(* is two steps: self._inputs_check(...), which assigns the instance's      *)
(* _dependencies, and the `with tf.control_dependencies(self._dependencies)`*)
(* block, which reads the field and builds the loss under that list.        *)

\* First step of thread t's apply(a, b).  BCELoss._inputs_check may raise,
\* and the call ends there.  A call of another thread that has checked and
\* not yet reduced is overtaken.
CheckInputs(t, a, b) ==
    /\ self_class # NoInstance
    /\ calls[t].pc = "ready"
    /\ _dependencies' = _inputs_check(self_class, _loss_parameters, _dependencies, a, b)
    /\ LET raised == self_class = BCELoss /\ BCEMissingNumEntities(_loss_parameters)
           mine == [pc |-> IF raised THEN "done" ELSE "checked",
                    a |-> a, b |-> b, guard |-> <<>>,
                    ret |-> IF raised THEN Outcome("ConfigurationError", 0)
                                      ELSE Outcome("None", 0),
                    overtaken |-> FALSE]
       IN  calls' = [u \in Threads |->
                        IF u = t THEN mine
                        ELSE IF calls[u].pc = "checked"
                            THEN [calls[u] EXCEPT !.overtaken = TRUE]
                        ELSE calls[u]]
    /\ last_op' = "_inputs_check"
    /\ last_args' = <<t>>
    /\ caller_tensors' = <<>>
    /\ UNCHANGED <<registry_vars, self_class, _loss_parameters, ret, memo>>

\* Second step of thread t's apply: the list read is the field as it is now.
Reduce(t) ==
    /\ calls[t].pc = "checked"
    /\ LET out == apply_outcome(self_class, _loss_parameters, _dependencies,
                                calls[t].a, calls[t].b)
       IN  /\ calls' = [calls EXCEPT ![t].pc = "done",
                                     ![t].guard = _dependencies,
                                     ![t].ret = out]
           /\ ret' = out
    /\ last_op' = "_apply"
    /\ last_args' = <<t>>
    /\ caller_tensors' = <<>>
    /\ UNCHANGED <<registry_vars, self_class, _loss_parameters, _dependencies, memo>>

NextThreads ==
    \/ \E c \in Classes, eta \in EtaValues : Construct(c, eta, <<>>)
    \/ \E t \in Threads, a \in ShapeTensors, b \in ShapeTensors : CheckInputs(t, a, b)
    \/ \E t \in Threads : Reduce(t)

SpecThreads == Init /\ [][NextThreads]_vars

-----------------------------------------------------------------------------
(* Properties. *)

\* The last step was an apply call on an instance of one of the classes cs.
Applied(cs) == last_op = "apply" /\ self_class \in cs

SameSizeLosses == {PairwiseLoss, NLLLoss, AbsoluteMarginLoss}

ShapeErrors == {"ShapeMismatchError", "IncompatibleShapesError"}

\* C1 (as stated): for the pairwise, nll and absolute_margin losses, apply
\* fails with a shape-mismatch error when eta # 1 and the two lengths differ,
\* and raises no shape error when eta = 1, whatever the two lengths are.
C1_NoShapeErrorWhenEtaIsOne ==
    Applied(SameSizeLosses) =>
        /\ (_loss_parameters["eta"] # 1 /\ Len(last_args[1]) # Len(last_args[2]))
                => ret.kind = "ShapeMismatchError"
        /\ _loss_parameters["eta"] = 1 => ret.kind \notin ShapeErrors

\* C1 (amended): for the pairwise, nll and absolute_margin losses, apply fails
\* with the same-length assertion's shape-mismatch error when eta # 1 and the
\* two lengths differ.  When eta = 1 no assertion is built and that error is
\* never raised: nll then returns a scalar whatever the lengths are, while
\* pairwise and absolute_margin return a scalar exactly when the two lengths
\* broadcast (they are equal, or one of them is 1) and otherwise fail in the
\* element-wise arithmetic with an incompatible-shapes error.
C1_ShapeCheck ==
    Applied(SameSizeLosses) =>
        LET lp == Len(last_args[1])
            ln == Len(last_args[2])
        IN  /\ (_loss_parameters["eta"] # 1 /\ lp # ln) => ret.kind = "ShapeMismatchError"
            /\ _loss_parameters["eta"] = 1 =>
                /\ _dependencies = <<>>
                /\ ret.kind # "ShapeMismatchError"
                /\ self_class = NLLLoss => ret.kind = "real"
                /\ self_class # NLLLoss =>
                    IF lp = ln \/ lp = 1 \/ ln = 1
                        THEN ret.kind = "loss"
                        ELSE ret.kind = "IncompatibleShapesError"

\* C1 witness: an absolute_margin instance with eta = 2 rejected a batch of
\* one positive and two negatives.
C1_Witness ==
    /\ Applied({AbsoluteMarginLoss})
    /\ _loss_parameters["eta"] = 2
    /\ Len(last_args[1]) = 1
    /\ Len(last_args[2]) = 2
    /\ ret.kind = "ShapeMismatchError"

NoSameSizeLosses == {SelfAdversarialLoss, NLLMulticlass, BCELoss}

\* C2 (as stated): for the self_adversarial, multiclass_nll and bce losses no
\* same-length assertion is ever placed in the pending-assertions list.
C2_NeverAsserted ==
    self_class \in NoSameSizeLosses => _dependencies = <<>>

\* C2 (amended): no same-length assertion is ever placed in the list of a
\* self_adversarial or multiclass_nll instance, for any eta; every apply call
\* on a bce instance places exactly one, on its two inputs, for any eta, and
\* a bce call that gets as far as running it fails on inputs of different
\* lengths.
C2_OnlyBCEAsserts ==
    /\ self_class \in {SelfAdversarialLoss, NLLMulticlass} => _dependencies = <<>>
    /\ Applied({BCELoss}) =>
        /\ _dependencies = <<[x |-> last_args[2], y |-> last_args[1]]>>
        /\ (Len(last_args[1]) # Len(last_args[2]))
                => ret.kind \in {"ShapeMismatchError", "ConfigurationError", "ZeroDivisionError"}

\* C2 witness: a bce instance with eta = 1 rejected inputs of different
\* lengths through its assertion.
C2_Witness ==
    /\ Applied({BCELoss})
    /\ _loss_parameters["eta"] = 1
    /\ Len(last_args[1]) # Len(last_args[2])
    /\ Len(_dependencies) = 1
    /\ ret.kind = "ShapeMismatchError"

\* C3: on a bce instance with label_smoothing enabled, an apply call made
\* before num_entities is set fails with the configuration error (no loss),
\* and one made after it is set does not fail with that error; with
\* label_smoothing disabled apply never raises it.
C3_NumEntitiesRequired ==
    /\ "num_entities" \in DOMAIN _loss_parameters => self_class = BCELoss
    /\ Applied({BCELoss}) =>
        /\ (_loss_parameters["label_smoothing"] # "None"
                /\ "num_entities" \notin DOMAIN _loss_parameters)
                => ret.kind = "ConfigurationError"
        /\ "num_entities" \in DOMAIN _loss_parameters => ret.kind # "ConfigurationError"
        /\ _loss_parameters["label_smoothing"] = "None" => ret.kind # "ConfigurationError"

\* C3 witness: with label_smoothing 0.1 and num_entities set, apply returned a
\* loss.
C3_Witness ==
    /\ Applied({BCELoss})
    /\ _loss_parameters["label_smoothing"] = "0.1"
    /\ "num_entities" \in DOMAIN _loss_parameters
    /\ ret.kind = "real"

\* C4 (as stated): get_state(param_name) fails with an unknown-parameter error
\* whenever param_name is not a key of the descriptor's class-level
\* parameters, and returns a value only for keys that are present.
C4_UnknownParameterFails ==
    last_op = "get_state" =>
        LET present == last_args[1] \in DOMAIN class_params[LOSS_REGISTRY[name[self_class]]]
        IN  /\ ~present => ret.kind = "Exception"
            /\ ret.kind = "value" => present

\* C5 (as stated): after any sequence of register calls every key k of the
\* registry maps to a descriptor whose name field equals k.
C5_NameIsKey ==
    \A k \in DOMAIN LOSS_REGISTRY : name[LOSS_REGISTRY[k]] = k

\* The declared parameters seen through lookup(k).
Descriptor(k) ==
    [external_params |-> external_params[LOSS_REGISTRY[k]],
     class_params    |-> class_params[LOSS_REGISTRY[k]]]

\* C6 (as stated): once a name is registered, the declared_external_params
\* and class_params seen through lookup(name) are never changed by a later
\* register call made for a different name.
C6_DescriptorImmutable ==
    [][last_op' = "register" =>
        \A k \in DOMAIN LOSS_REGISTRY \ {last_args'[1]} : Descriptor(k)' = Descriptor(k)]_vars

\* The value C7 expects under key k: the mapping's when present, else the
\* default the claim names for the variant.
ExpectedHyperparam(c, d, k) ==
    IF k \in DOMAIN d THEN d[k]
    ELSE CASE k = "margin" -> IF c = SelfAdversarialLoss THEN 3 ELSE 1
           [] k = "alpha" -> "0.5"
           [] k = "label_smoothing" -> "None"
           [] k = "label_weighting" -> FALSE

C8_Idempotent ==
    (/\ last_op = "apply"
     /\ Len(memo) = 1
     /\ memo[1].a = last_args[1]
     /\ memo[1].b = last_args[2]) => ret = memo[1].ret

\* C8 witness: a call answered with a loss is repeated after a call that
\* failed its assertion, and is answered with a loss again.
C8_Witness ==
    /\ last_op = "apply"
    /\ Len(memo) = 1
    /\ memo[1].a = last_args[1]
    /\ memo[1].b = last_args[2]
    /\ memo[1].ret.kind = "loss"
    /\ memo[1].between = "ShapeMismatchError"
    /\ Len(_dependencies) = 1
    /\ ret.kind = "loss"

RECURSIVE HingeSum(_, _, _, _)
\* The sum over positions 1..n of max(0, margin - pos[i] + neg[i]).
HingeSum(margin, pos, neg, n) ==
    IF n = 0 THEN 0
    ELSE HingeSum(margin, pos, neg, n - 1)
            + (IF margin - pos[n] + neg[n] > 0 THEN margin - pos[n] + neg[n] ELSE 0)

\* C9: for the pairwise loss over integer scores of equal length, apply
\* returns the sum over positions i of max(0, margin - scores_pos[i] +
\* scores_neg[i]); margin 1, scores_pos [1], scores_neg [0] gives 0; the
\* result is never negative.
C9_PairwiseSum ==
    (Applied({PairwiseLoss}) /\ Len(last_args[1]) = Len(last_args[2])) =>
        /\ ret.kind = "loss"
        /\ ret.val = HingeSum(_loss_parameters["margin"], last_args[1], last_args[2],
                              Len(last_args[1]))
        /\ ret.val >= 0
        /\ (_loss_parameters["margin"] = 1 /\ last_args = << <<1>>, <<0>> >>) => ret.val = 0

\* C9 witness: with margin 0, positives [1, 0] and negatives [0, 1], one term
\* is cut off at 0 and the loss is 1.
C9_Witness ==
    /\ Applied({PairwiseLoss})
    /\ _loss_parameters["margin"] = 0
    /\ last_args = << <<1, 0>>, <<0, 1>> >>
    /\ ret = [kind |-> "loss", val |-> 1]

\* C10: the pending-assertions list is rebuilt on every apply call: it never
\* holds more than one assertion, and after an apply call that assertion (if
\* any) is on the inputs of that call.
C10_RebuiltPerCall ==
    /\ Len(_dependencies) <= 1
    /\ last_op = "apply" =>
        \A i \in 1..Len(_dependencies) :
            {_dependencies[i].x, _dependencies[i].y} = {last_args[1], last_args[2]}

\* C10 witness: after an earlier call with a batch of another length, the
\* list holds the one assertion of the latest call.
C10_Witness ==
    /\ last_op = "apply"
    /\ Len(memo) = 1
    /\ Len(memo[1].a) # Len(last_args[1])
    /\ Len(memo[1].b) # Len(last_args[2])
    /\ _dependencies = <<[x |-> last_args[1], y |-> last_args[2]]>>

-----------------------------------------------------------------------------
\* C11: an apply call on a constructed instance, whether it returns a loss
\* or raises, leaves the instance's class, its hyperparameter dict
\* (_loss_parameters, eta included), the four registry components and the
\* caller's two score tensors as they were; of the instance's fields only
\* _dependencies may differ after the call.
C11_ApplyFrame ==
    [][last_op' = "apply" =>
        /\ self_class' = self_class
        /\ _loss_parameters' = _loss_parameters
        /\ registry_vars' = registry_vars
        /\ caller_tensors' = last_args']_vars

\* An apply call that failed after it replaced the list of pending
\* assertions: the hyperparameters and the inputs are as before the call.
C11_Witness ==
    /\ Applied({NLLLoss})
    /\ ret.kind = "ShapeMismatchError"
    /\ Len(last_args[1]) = 2
    /\ last_args[1][1] = 1
    /\ caller_tensors = last_args
    /\ Len(_dependencies) = 1
    /\ _loss_parameters["eta"] = 2

-----------------------------------------------------------------------------
\* The assertion list _inputs_check builds from the inputs of thread t's call.
ListOf(t) ==
    IF self_class = BCELoss THEN <<[x |-> calls[t].b, y |-> calls[t].a]>>
    ELSE IF self_class \in SameSizeLosses /\ _loss_parameters["eta"] # 1
        THEN <<[x |-> calls[t].a, y |-> calls[t].b]>>
    ELSE <<>>

\* Thread t's call has run its second step.
Reduced(t) == calls[t].pc = "done" /\ calls[t].ret.kind # "ConfigurationError"

\* C12: a call that no other call's _inputs_check step overtook between its
\* two steps (so every call, when the calls are serialized) builds its loss
\* under exactly the list built from its own inputs, and a length mismatch
\* that list asserts fails the call; an overtaken call builds its loss under
\* the list built from the other call's inputs.
C12_GuardedByLatestCheck ==
    \A t \in Threads : Reduced(t) =>
        /\ ~calls[t].overtaken =>
            /\ calls[t].guard = ListOf(t)
            /\ (Len(ListOf(t)) = 1 /\ Len(calls[t].a) # Len(calls[t].b))
                    => calls[t].ret.kind = "ShapeMismatchError"
        /\ calls[t].overtaken =>
            \E u \in Threads \ {t} : calls[t].guard = ListOf(u)

\* Thread 1's call was overtaken: its inputs differ in length on a loss that
\* asserts equal lengths, the list it read holds thread 2's
\* equal-length inputs, and it returned a loss.
C12_Witness ==
    /\ self_class = PairwiseLoss
    /\ _loss_parameters["eta"] = 2
    /\ Reduced(1)
    /\ calls[1].overtaken
    /\ Len(calls[1].a) # Len(calls[1].b)
    /\ calls[1].guard = ListOf(2)
    /\ Len(calls[2].a) = Len(calls[2].b)
    /\ calls[1].ret.kind = "loss"

-----------------------------------------------------------------------------
ReshapeLosses == {SelfAdversarialLoss, NLLMulticlass}

\* C13: for self_adversarial and multiclass_nll no assertion is built, and
\* apply returns a scalar exactly when len(scores_neg) = eta * len(scores_pos);
\* for every other pair of lengths the reshape fails, so with eta # 1 and
\* non-empty inputs of equal length apply fails.
C13_ReshapeDecides ==
    Applied(ReshapeLosses) =>
        LET n == Len(last_args[1])
            m == Len(last_args[2])
            eta == _loss_parameters["eta"]
        IN  /\ _dependencies = <<>>
            /\ ret.kind \in {"real", "IncompatibleShapesError"}
            /\ ret.kind = "real" <=> m = eta * n
            /\ (eta # 1 /\ n = m /\ n > 0) => ret.kind = "IncompatibleShapesError"

\* self_adversarial with eta 2 fails on two non-empty inputs of one length,
\* with no assertion pending.
C13_Witness ==
    /\ Applied({SelfAdversarialLoss})
    /\ _loss_parameters["eta"] = 2
    /\ Len(last_args[1]) = 1
    /\ Len(last_args[2]) = 1
    /\ _dependencies = <<>>
    /\ ret.kind = "IncompatibleShapesError"

=============================================================================
